---- MODULE Spec2Model ----
(***************************************************************************)
(* A model of environment.py: the Environment class (constructor, parse,   *)
(* __getattr__, __setattr__) and the is_yesish typecaster.                 *)
(*                                                                         *)
(* Text is a sequence of one-character strings, so that lower(),           *)
(* startswith(), slicing and sorting are computed character by character.  *)
(* A Python value is a record [kind, s, n]: str (s is the text), int (n is *)
(* the number), bool (n is 1 or 0) or none.                                *)
(***************************************************************************)
EXTENDS Integers, Sequences, FiniteSets, TLC

VARIABLES
    pc,             \* "start" before Environment(...) runs, "ready" after
    prefix_arg,     \* the prefix argument of the constructor
    caller_spec,    \* the caller's spec mapping (the object passed as spec)
    caller_environ, \* the caller's environ mapping (the object passed as environ)
    kw,             \* the keyword arguments of the constructor
    environ,        \* self.environ
    parsed,         \* self.parsed
    prefix,         \* self.prefix
    missing,        \* self.missing
    malformed,      \* self.malformed
    spec,           \* self.spec
    rebound,        \* entries of self.__dict__ rebound by __setattr__ after construction
    nsets,          \* number of attribute assignments made so far
    arg,            \* the argument of the last is_yesish call
    result          \* outcome of the last attribute lookup, assignment or is_yesish call

vars == <<pc, prefix_arg, caller_spec, caller_environ, kw, environ, parsed,
          prefix, missing, malformed, spec, rebound, nsets, arg, result>>

(***************************************************************************)
(* Bounds of the model.                                                    *)
(***************************************************************************)
MaxSpec == 2        \* keys in the caller's spec
MaxEnviron == 2     \* entries in the caller's environ
MaxSetattr == 2     \* attribute assignments after construction
MaxYesLen == 3      \* length of the texts given to is_yesish

(***************************************************************************)
(* Text.                                                                   *)
(***************************************************************************)
Chars == {"0", "1", "4", "2", "A", "B", "C", "E", "P", "Q", "R", "S", "T", "U", "Y", "_",
          "a", "b", "c", "d", "e", "f", "g", "h", "i", "l", "m", "n", "o", "p",
          "q", "r", "s", "t", "u", "v", "x", "y"}

\* Code point of a character (the order sorted() uses on text).
Ord(c) ==
    CASE c = "0" -> 48 [] c = "1" -> 49 [] c = "2" -> 50 [] c = "4" -> 52
      [] c = "A" -> 65 [] c = "B" -> 66 [] c = "C" -> 67 [] c = "E" -> 69
      [] c = "P" -> 80 [] c = "Q" -> 81 [] c = "R" -> 82 [] c = "S" -> 83 [] c = "T" -> 84
      [] c = "U" -> 85 [] c = "Y" -> 89 [] c = "_" -> 95
      [] c = "a" -> 97 [] c = "b" -> 98 [] c = "c" -> 99 [] c = "d" -> 100
      [] c = "e" -> 101 [] c = "f" -> 102 [] c = "g" -> 103 [] c = "h" -> 104
      [] c = "i" -> 105 [] c = "l" -> 108 [] c = "m" -> 109 [] c = "n" -> 110
      [] c = "o" -> 111 [] c = "p" -> 112 [] c = "q" -> 113 [] c = "r" -> 114 [] c = "s" -> 115
      [] c = "t" -> 116 [] c = "u" -> 117 [] c = "v" -> 118 [] c = "x" -> 120
      [] c = "y" -> 121

\* str.lower() on one character.
LowerChar(c) ==
    CASE c = "A" -> "a" [] c = "B" -> "b" [] c = "C" -> "c" [] c = "E" -> "e"
      [] c = "P" -> "p" [] c = "Q" -> "q" [] c = "R" -> "r" [] c = "S" -> "s" [] c = "T" -> "t"
      [] c = "U" -> "u" [] c = "Y" -> "y"
      [] OTHER -> c

\* str.lower()
Lower(s) == [i \in 1..Len(s) |-> LowerChar(s[i])]

\* str.startswith(p)
StartsWith(s, p) == Len(p) <= Len(s) /\ SubSeq(s, 1, Len(p)) = p

\* s[n:]
SliceFrom(s, n) == SubSeq(s, n + 1, Len(s))

\* a < b on text: lexicographic by code point.
LessStr(a, b) ==
    \E i \in 1..Len(b) :
        /\ \A j \in 1..(i - 1) : j <= Len(a) /\ a[j] = b[j]
        /\ (i > Len(a) \/ Ord(a[i]) < Ord(b[i]))

\* sorted(S) for a set S of texts.
RECURSIVE Sorted(_)
Sorted(S) ==
    IF S = {} THEN <<>>
    ELSE LET m == CHOOSE x \in S : \A y \in S \ {x} : LessStr(x, y)
         IN  <<m>> \o Sorted(S \ {m})

(***************************************************************************)
(* Python values and mappings.                                             *)
(***************************************************************************)
PyStr(s) == [kind |-> "str", s |-> s, n |-> 0]
PyInt(n) == [kind |-> "int", s |-> <<>>, n |-> n]
PyBool(b) == [kind |-> "bool", s |-> <<>>, n |-> IF b THEN 1 ELSE 0]
PyNone == [kind |-> "none", s |-> <<>>, n |-> 0]

EmptyDict == [k \in {} |-> PyNone]

\* d[k] = v
SetItem(d, k, v) == [x \in DOMAIN d \cup {k} |-> IF x = k THEN v ELSE d[x]]

\* d.update(e)
Update(d, e) == [x \in DOMAIN d \cup DOMAIN e |-> IF x \in DOMAIN e THEN e[x] ELSE d[x]]

\* The mapping d without key k.
Without(d, k) == [x \in DOMAIN d \ {k} |-> d[x]]

(***************************************************************************)
(* Typecasters.  A call returns [raised, val, exc_type, exc_instance].     *)
(***************************************************************************)
Return(v) == [raised |-> FALSE, val |-> v, exc_type |-> "",
              exc_instance |-> <<"", <<>>>>]
Raise(t, text, about) == [raised |-> TRUE, val |-> PyNone, exc_type |-> t,
                          exc_instance |-> <<text, about>>]

Digits == {"0", "1", "2", "4"}
DigitVal(c) == Ord(c) - 48

RECURSIVE DecimalValue(_)
DecimalValue(s) ==
    IF s = <<>> THEN 0
    ELSE 10 * DecimalValue(SubSeq(s, 1, Len(s) - 1)) + DigitVal(s[Len(s)])

\* The builtin int on a text of the model's alphabet.
py_int(value) ==
    IF value.kind = "str" /\ value.s # <<>> /\ \A i \in 1..Len(value.s) : value.s[i] \in Digits
    THEN Return(PyInt(DecimalValue(value.s)))
    ELSE Raise("ValueError", "invalid literal for int() with base 10: ", value.s)

\* The builtin str (unicode under Python 2) on a text: a pass-through.
py_str(value) == Return(PyStr(value.s))

YesTexts == {<<"1">>, <<"t", "r", "u", "e">>, <<"y", "e", "s">>}

is_yesish_nolower(value) ==
    IF value.kind = "str"
    THEN Return(PyBool(value.s \in YesTexts))
    ELSE Raise("AttributeError", "object has no attribute 'lower': ", <<>>)

is_yesish(value) ==
    IF value.kind = "str"
    THEN Return(PyBool(Lower(value.s) \in YesTexts))
    ELSE Raise("AttributeError", "object has no attribute 'lower': ", <<>>)

Typecasters == {"int", "str", "is_yesish"}

\* type_(value)
Call(type_, value) ==
    CASE type_ = "int" -> py_int(value)
      [] type_ = "str" -> py_str(value)
      [] type_ = "is_yesish" -> is_yesish(value)

(***************************************************************************)
(* Environment.parse                                                       *)
(***************************************************************************)
\* "{0}: {1}".format(exc_type.__name__, exc_instance)
FormatMsg(r) == <<r.exc_type, ": ", r.exc_instance[1], r.exc_instance[2]>>

\* The two `continue`s that skip an envvar we don't care about.
Skipped_noprefixtest(name, p, sp) ==
    SliceFrom(name, Len(p)) \notin DOMAIN sp

Skipped(name, p, sp) ==
    \/ ~StartsWith(name, p)
    \/ SliceFrom(name, Len(p)) \notin DOMAIN sp

\* The key of parsed under which a typecast value is stored.
StoreKey_firstsegment(unprefixed) ==
    LET l == Lower(unprefixed)
        cut == IF \E i \in 1..Len(l) : l[i] = "_"
               THEN (CHOOSE i \in 1..Len(l) : l[i] = "_" /\ \A j \in 1..(i - 1) : l[j] # "_") - 1
               ELSE Len(l)
    IN  SubSeq(l, 1, cut)

StoreKey(unprefixed) == Lower(unprefixed)

\* One iteration of the loop over sorted(environ.items()); acc is
\* [malformed, parsed].
LoopBody_storesraw(acc, name, value, p, sp) ==
    IF Skipped(name, p, sp) THEN acc
    ELSE LET unprefixed == SliceFrom(name, Len(p))
             r == Call(sp[unprefixed], value)
         IN  IF r.raised
             THEN [acc EXCEPT !.malformed = Append(@, <<name, FormatMsg(r)>>),
                              !.parsed = SetItem(@, StoreKey(unprefixed), value)]
             ELSE [acc EXCEPT !.parsed = SetItem(@, StoreKey(unprefixed), r.val)]

LoopBody(acc, name, value, p, sp) ==
    IF Skipped(name, p, sp) THEN acc
    ELSE LET unprefixed == SliceFrom(name, Len(p))
             r == Call(sp[unprefixed], value)
         IN  IF r.raised
             THEN [acc EXCEPT !.malformed = Append(@, <<name, FormatMsg(r)>>)]
             ELSE [acc EXCEPT !.parsed = SetItem(@, StoreKey(unprefixed), r.val)]

RECURSIVE Loop(_, _, _, _, _)
Loop(acc, names, env, p, sp) ==
    IF names = <<>> THEN acc
    ELSE Loop(LoopBody(acc, Head(names), PyStr(env[Head(names)]), p, sp),
              Tail(names), env, p, sp)

\* missing = sorted(list(set(spec) - set(environ)))
MissingOf(sp, env) == Sorted(DOMAIN sp \ DOMAIN env)

\* Environment.parse(prefix, spec, environ, None).  The encoding is None
\* whenever environ is given to the constructor (and always under Python 3),
\* so the values are typecast as they are.
parse(p, sp, env) ==
    LET acc == Loop([malformed |-> <<>>, parsed |-> EmptyDict],
                    Sorted(DOMAIN env), env, p, sp)
    IN  [missing |-> MissingOf(sp, env), malformed |-> acc.malformed, parsed |-> acc.parsed]

(***************************************************************************)
(* Environment.__init__                                                    *)
(***************************************************************************)
\* The state of the caller's spec object and of the new instance after
\* __init__(prefix=p, spec=sp, environ=env, **k).  The instance keeps a copy
\* of env but the very object sp, which spec.update(kw) has changed in place.
Environment_init(p, sp, env, k) ==
    LET updated == Update(sp, k)
        out == parse(p, updated, env)
    IN  [caller_spec |-> updated,
         environ |-> env,
         spec |-> updated,
         prefix |-> p,
         missing |-> out.missing,
         malformed |-> out.malformed,
         parsed |-> out.parsed]

(***************************************************************************)
(* Attribute access.                                                       *)
(***************************************************************************)
n_environ == <<"e", "n", "v", "i", "r", "o", "n">>
n_parsed == <<"p", "a", "r", "s", "e", "d">>
n_prefix == <<"p", "r", "e", "f", "i", "x">>
n_missing == <<"m", "i", "s", "s", "i", "n", "g">>
n_malformed == <<"m", "a", "l", "f", "o", "r", "m", "e", "d">>
n_spec == <<"s", "p", "e", "c">>
n_parse == <<"p", "a", "r", "s", "e">>
n_blah == <<"b", "l", "a", "h">>
n_a == <<"a">>

\* The data attributes of the class, which __init__ binds on the instance.
FieldNames == {n_environ, n_parsed, n_prefix, n_missing, n_malformed, n_spec}

\* Environment.__dict__ (the names of the model's alphabet).
ClassDictNames == FieldNames \cup {n_parse}

\* An outcome of an operation on the instance: where the value came from
\* ("__dict__", "class", "parsed") or what was raised.
Outcome(op, name, source, v) ==
    [op |-> op, name |-> name, raised |-> FALSE, exc_type |-> "", source |-> source,
     val |-> v]
Raised(op, name, t) ==
    [op |-> op, name |-> name, raised |-> TRUE, exc_type |-> t, source |-> "",
     val |-> PyNone]
NoResult == Outcome("", <<>>, "", PyNone)

\* Environment.__getattr__(self, name), which Python calls when the normal
\* lookup finds nothing; rb is what __setattr__ has rebound in self.__dict__,
\* pd the dictionary made by parse.
Environment_getattr_default(rb, pd, name) ==
    IF n_parsed \in DOMAIN rb THEN Raised("getattr", name, "TypeError")
    ELSE IF name \in DOMAIN pd THEN Outcome("getattr", name, "parsed", pd[name])
    ELSE Outcome("getattr", name, "parsed", PyNone)

Environment_getattr(rb, pd, name) ==
    IF n_parsed \in DOMAIN rb THEN Raised("getattr", name, "TypeError")
    ELSE IF name \in DOMAIN pd THEN Outcome("getattr", name, "parsed", pd[name])
    ELSE Raised("getattr", name, "AttributeError")

\* self.<name> on a constructed instance: the instance's __dict__, then the
\* class, then __getattr__.
Lookup(rb, pd, p, name) ==
    IF name \in DOMAIN rb THEN Outcome("getattr", name, "__dict__", rb[name])
    ELSE IF name = n_prefix THEN Outcome("getattr", name, "__dict__", PyStr(p))
    ELSE IF name \in FieldNames THEN Outcome("getattr", name, "__dict__", PyNone)
    ELSE IF name \in ClassDictNames THEN Outcome("getattr", name, "class", PyNone)
    ELSE Environment_getattr(rb, pd, name)

\* Environment.__setattr__(self, name, value): the new [rebound, parsed, result].
Environment_setattr_alwaysdict(rb, pd, name, value) ==
    [rebound |-> SetItem(rb, name, value), parsed |-> pd,
     result |-> Outcome("setattr", name, "__dict__", value)]

Environment_setattr(rb, pd, name, value) ==
    IF name \in ClassDictNames
    THEN [rebound |-> SetItem(rb, name, value), parsed |-> pd,
          result |-> Outcome("setattr", name, "__dict__", value)]
    ELSE IF n_parsed \in DOMAIN rb
    THEN [rebound |-> rb, parsed |-> pd, result |-> Raised("setattr", name, "TypeError")]
    ELSE [rebound |-> rb, parsed |-> SetItem(pd, name, value),
          result |-> Outcome("setattr", name, "parsed", value)]

(***************************************************************************)
(* Inputs.                                                                 *)
(***************************************************************************)
k_A == <<"A">>
k_a == <<"a">>
k_A_B_C == <<"A", "_", "B", "_", "C">>
p_P == <<"P", "_">>
p_Q == <<"Q", "_">>

Prefixes == {<<>>, p_P}
Keys == {k_A, k_a, k_A_B_C}
KwKeys == {k_A_B_C}
EnvNames == {k_A, k_a, k_A_B_C, p_P \o k_A, p_P \o k_A_B_C, p_Q \o k_A}
EnvValues == {<<"1">>, <<"x">>, <<"Y", "e", "s">>}

AttrKeys == {k_A, n_prefix}
AttrNames == {n_a, n_blah, n_prefix, n_missing, n_parsed}
AttrValues == {PyStr(<<"b", "l", "o", "o">>), PyInt(537)}

AtMost(S, n) == {K \in SUBSET S : Cardinality(K) <= n}
SpecsOver(keys, n) == UNION {[K -> Typecasters] : K \in AtMost(keys, n)}
EnvironsOver(names, n) == UNION {[K -> EnvValues] : K \in AtMost(names, n)}

YesChars == {"1", "0", "y", "Y", "e", "E", "s", "S"}
TextsUpTo(n) == UNION {[1..m -> YesChars] : m \in 0..n}
TrueSpellings == {<<t, r, u, e>> : t \in {"t", "T"}, r \in {"r", "R"},
                                   u \in {"u", "U"}, e \in {"e", "E"}}
YesInputs ==
    {PyStr(s) : s \in TextsUpTo(MaxYesLen) \cup TrueSpellings
                      \cup {<<"t", "r", "u">>, <<"t", "r", "u", "e", "e">>, <<"n", "o">>}}
    \cup {PyInt(1), PyInt(0), PyBool(TRUE), PyBool(FALSE)}

(***************************************************************************)
(* The state machines.                                                     *)
(***************************************************************************)
\* Before Environment(prefix_arg, caller_spec, caller_environ, **kw): the
\* instance sees the class attributes.
Init ==
    /\ pc = "start"
    /\ prefix_arg \in Prefixes
    /\ caller_spec \in SpecsOver(Keys, MaxSpec)
    /\ caller_environ \in EnvironsOver(EnvNames, MaxEnviron)
    /\ kw \in SpecsOver(KwKeys, Cardinality(KwKeys))
    /\ environ = EmptyDict
    /\ parsed = EmptyDict
    /\ prefix = <<>>
    /\ missing = <<>>
    /\ malformed = <<>>
    /\ spec = EmptyDict
    /\ rebound = EmptyDict
    /\ nsets = 0
    /\ arg = PyNone
    /\ result = NoResult

\* env = Environment(prefix_arg, spec=caller_spec, environ=caller_environ, **kw)
Construct ==
    /\ pc = "start"
    /\ LET self == Environment_init(prefix_arg, caller_spec, caller_environ, kw)
       IN  /\ caller_spec' = self.caller_spec
           /\ environ' = self.environ
           /\ spec' = self.spec
           /\ prefix' = self.prefix
           /\ missing' = self.missing
           /\ malformed' = self.malformed
           /\ parsed' = self.parsed
    /\ pc' = "ready"
    /\ UNCHANGED <<prefix_arg, caller_environ, kw, rebound, nsets, arg, result>>

Next == Construct

Spec == Init /\ [][Next]_vars

\* A constructed instance, for the operations on it.
InitAttr ==
    /\ pc = "ready"
    /\ prefix_arg = <<>>
    /\ kw = EmptyDict
    /\ \E sp \in SpecsOver(AttrKeys, MaxSpec), env \in EnvironsOver(AttrKeys, MaxEnviron) :
          LET self == Environment_init(prefix_arg, sp, env, kw)
          IN  /\ caller_spec = self.caller_spec
              /\ caller_environ = env
              /\ environ = self.environ
              /\ spec = self.spec
              /\ prefix = self.prefix
              /\ missing = self.missing
              /\ malformed = self.malformed
              /\ parsed = self.parsed
    /\ rebound = EmptyDict
    /\ nsets = 0
    /\ arg = PyNone
    /\ result = NoResult

\* env.<name>
GetAttr ==
    /\ pc = "ready"
    /\ \E name \in AttrNames \cup {n_parse} :
          result' = Lookup(rebound, parsed, prefix, name)
    /\ UNCHANGED <<pc, prefix_arg, caller_spec, caller_environ, kw, environ, parsed,
                   prefix, missing, malformed, spec, rebound, nsets, arg>>

\* env.<name> = value
SetAttr ==
    /\ pc = "ready"
    /\ nsets < MaxSetattr
    /\ \E name \in AttrNames, value \in AttrValues :
          LET out == Environment_setattr(rebound, parsed, name, value)
          IN  /\ rebound' = out.rebound
              /\ parsed' = out.parsed
              /\ result' = out.result
    /\ nsets' = nsets + 1
    /\ UNCHANGED <<pc, prefix_arg, caller_spec, caller_environ, kw, environ,
                   prefix, missing, malformed, spec, arg>>

NextAttr == GetAttr \/ SetAttr

SpecAttr == InitAttr /\ [][NextAttr]_vars

\* Before is_yesish(arg).
InitYes ==
    /\ pc = "call"
    /\ arg \in YesInputs
    /\ prefix_arg = <<>>
    /\ caller_spec = EmptyDict
    /\ caller_environ = EmptyDict
    /\ kw = EmptyDict
    /\ environ = EmptyDict
    /\ parsed = EmptyDict
    /\ prefix = <<>>
    /\ missing = <<>>
    /\ malformed = <<>>
    /\ spec = EmptyDict
    /\ rebound = EmptyDict
    /\ nsets = 0
    /\ result = NoResult

\* is_yesish(arg)
CallIsYesish ==
    /\ pc = "call"
    /\ LET r == is_yesish(arg)
       IN  result' = IF r.raised THEN Raised("is_yesish", <<>>, r.exc_type)
                     ELSE Outcome("is_yesish", <<>>, "", r.val)
    /\ pc' = "returned"
    /\ UNCHANGED <<prefix_arg, caller_spec, caller_environ, kw, environ, parsed,
                   prefix, missing, malformed, spec, rebound, nsets, arg>>

NextYes == CallIsYesish

SpecYes == InitYes /\ [][NextYes]_vars

(***************************************************************************)
(* Properties.                                                             *)
(***************************************************************************)
InSeq(seq, x) == \E i \in 1..Len(seq) : seq[i] = x
MalformedNames == {malformed[i][1] : i \in 1..Len(malformed)}
Values(d) == {d[k] : k \in DOMAIN d}
HasSeparator(s) == \E i \in 1..Len(s) : s[i] = "_"
\* The text of s before its first underscore.
RECURSIVE FirstSegment(_)
FirstSegment(s) ==
    IF s = <<>> \/ Head(s) = "_" THEN <<>> ELSE <<Head(s)>> \o FirstSegment(Tail(s))

\* Spec key K has an entry in environ under its prefixed name.
Present(K) == (prefix \o K) \in DOMAIN environ
\* The typecaster of spec key K applied to the value found in environ.
Cast(K) == Call(spec[K], PyStr(environ[prefix \o K]))
\* An environ entry the parser has no use for.
Ignored(name) ==
    \/ Len(name) < Len(prefix)
    \/ \E i \in 1..Len(prefix) : name[i] # prefix[i]
    \/ \A K \in DOMAIN spec : name # prefix \o K

\* How many of the three outputs account for spec key K.
Accounts(K) ==
    (IF InSeq(missing, K) THEN 1 ELSE 0)
    + (IF (prefix \o K) \in MalformedNames THEN 1 ELSE 0)
    + (IF Lower(K) \in DOMAIN parsed THEN 1 ELSE 0)

\* C1: after construction every spec key is in exactly one of missing,
\* malformed (under its prefixed name) and parsed (under its lowercased name).
C1_ExactlyOneOutput ==
    pc = "ready" => \A K \in DOMAIN spec : Accounts(K) = 1

\* C2: after construction missing is the ascending list of the spec keys
\* whose prefixed name has no entry in environ.
C2_MissingIsPrefixedAbsent ==
    pc = "ready" =>
        missing = Sorted({K \in DOMAIN spec : (prefix \o K) \notin DOMAIN environ})

\* C3: a spec key whose typecaster raises is reported in malformed as
\* (prefixed name, "<type>: <message>"), and parsed and the rest of malformed
\* are what parse gives when that key is not in spec.
C3_FailureIsIsolated ==
    pc = "ready" =>
        \A K \in DOMAIN spec :
            (Present(K) /\ Cast(K).raised) =>
                LET name == prefix \o K
                    rest == parse(prefix, Without(spec, K), environ)
                IN  /\ InSeq(malformed, <<name, <<Cast(K).exc_type, ": ">> \o Cast(K).exc_instance>>)
                    /\ parsed = rest.parsed
                    /\ SelectSeq(malformed, LAMBDA e : e[1] # name) = rest.malformed

\* A typecast failed on an entry that sorts before another spec key's entry,
\* and that other key was still parsed.
C3_Witness ==
    /\ pc = "ready"
    /\ \E K \in DOMAIN spec, K2 \in DOMAIN spec :
          /\ Present(K) /\ Cast(K).raised
          /\ K2 # K /\ Present(K2) /\ ~Cast(K2).raised
          /\ LessStr(prefix \o K, prefix \o K2)
          /\ Lower(K2) # Lower(K)
          /\ Lower(K2) \in DOMAIN parsed
          /\ Len(malformed) = 1

\* C4 as stated: the name and the value of an ignored environ entry are no
\* key and no value of parsed, the name is not in missing nor in malformed,
\* and the instance gets no extra attribute.
C4_IgnoredNeverAppears ==
    pc = "ready" =>
        \A name \in DOMAIN environ :
            Ignored(name) =>
                /\ name \notin DOMAIN parsed
                /\ PyStr(environ[name]) \notin Values(parsed)
                /\ ~InSeq(missing, name)
                /\ name \notin MalformedNames
                /\ DOMAIN rebound = {}

\* C4 amended: an ignored environ entry contributes nothing: parsed and
\* malformed are those computed without it, its name is not in missing nor
\* in malformed, and the instance gets no extra attribute.
C4_IgnoredContributesNothing ==
    pc = "ready" =>
        \A name \in DOMAIN environ :
            Ignored(name) =>
                LET rest == parse(prefix, spec, Without(environ, name))
                IN  /\ parsed = rest.parsed
                    /\ malformed = rest.malformed
                    /\ ~InSeq(missing, name)
                    /\ name \notin MalformedNames
                    /\ DOMAIN rebound = {}

\* An entry without the prefix is ignored next to one that is parsed.
C4_Witness ==
    /\ pc = "ready"
    /\ prefix = p_P
    /\ (p_Q \o k_A) \in DOMAIN environ
    /\ (p_P \o k_A) \in DOMAIN environ
    /\ k_A \in DOMAIN spec
    /\ DOMAIN parsed = {k_a}

\* C5: no step changes the caller's spec mapping or the caller's environ
\* mapping.
C5_CallerMappingsUnchanged ==
    [][caller_spec' = caller_spec /\ caller_environ' = caller_environ]_vars

\* C6 as stated: a successfully typecast key with an underscore is stored
\* under a namespace named by its lowercased first segment.
C6_StoredUnderNamespace ==
    pc = "ready" =>
        \A K \in DOMAIN spec :
            (HasSeparator(K) /\ Present(K) /\ ~Cast(K).raised) =>
                /\ FirstSegment(Lower(K)) \in DOMAIN parsed
                /\ parsed[FirstSegment(Lower(K))].kind = "namespace"

\* C6 amended: a successfully typecast key with an underscore is stored flat,
\* under its whole lowercased name, and that entry is a typecast value (of
\* this key or of a spec key with the same lowercased name), not a namespace.
C6_StoredFlat ==
    pc = "ready" =>
        \A K \in DOMAIN spec :
            (HasSeparator(K) /\ Present(K) /\ ~Cast(K).raised) =>
                /\ Lower(K) \in DOMAIN parsed
                /\ \E K2 \in DOMAIN spec :
                      /\ Lower(K2) = Lower(K)
                      /\ Present(K2)
                      /\ parsed[Lower(K)] = Cast(K2).val
                /\ \A k \in DOMAIN parsed : parsed[k].kind \in {"str", "int", "bool"}

\* A_B_C was typecast and parsed has the key a_b_c and no key a.
C6_Witness ==
    /\ pc = "ready"
    /\ k_A_B_C \in DOMAIN spec
    /\ Present(k_A_B_C)
    /\ ~Cast(k_A_B_C).raised
    /\ <<"a", "_", "b", "_", "c">> \in DOMAIN parsed
    /\ <<"a">> \notin DOMAIN parsed

\* C9: the sizes of missing, malformed and parsed add up to the size of spec.
C9_SizesAddUp ==
    pc = "ready" =>
        Len(missing) + Len(malformed) + Cardinality(DOMAIN parsed)
            = Cardinality(DOMAIN spec)

\* C7 as stated: a lookup of any name returns parsed[name] when name is a
\* key of parsed and raises AttributeError for that name otherwise.
C7_LookupIsParsedOrAttributeError ==
    (pc = "ready" /\ result.op = "getattr") =>
        IF result.name \in DOMAIN parsed
        THEN ~result.raised /\ result.val = parsed[result.name]
        ELSE result.raised /\ result.exc_type = "AttributeError"

\* C7 amended: a lookup of a name that is no attribute of the class returns
\* parsed[name] when name is a key of parsed and raises AttributeError for
\* that name otherwise, as long as parsed is still a dictionary; a lookup
\* of a class attribute's name returns what the instance or the class holds
\* under it, whatever parsed has.
C7_LookupOfOtherNames ==
    (pc = "ready" /\ result.op = "getattr") =>
        IF result.name \in ClassDictNames
        THEN ~result.raised /\ result.source \in {"__dict__", "class"}
        ELSE IF n_parsed \in DOMAIN rebound
        THEN result.raised /\ result.exc_type = "TypeError"
        ELSE IF result.name \in DOMAIN parsed
        THEN ~result.raised /\ result.source = "parsed" /\ result.val = parsed[result.name]
        ELSE result.raised /\ result.exc_type = "AttributeError"

\* A name that was never parsed nor assigned is looked up on an instance
\* whose parsed has other keys (prefix among them), and AttributeError is raised.
C7_Witness ==
    /\ pc = "ready"
    /\ result.op = "getattr"
    /\ result.name = n_blah
    /\ result.raised
    /\ result.exc_type = "AttributeError"
    /\ n_prefix \in DOMAIN parsed
    /\ n_a \in DOMAIN parsed

\* Two characters that are the same letter up to case.
CasePairs == {<<"T", "t">>, <<"R", "r">>, <<"U", "u">>, <<"E", "e">>, <<"Y", "y">>,
              <<"S", "s">>}
SameLetter(c, d) == c = d \/ <<c, d>> \in CasePairs
EqualIgnoringCase(s, t) ==
    Len(s) = Len(t) /\ \A i \in 1..Len(s) : SameLetter(s[i], t[i])

\* C8: is_yesish returns true for a text that is "1", "true" or "yes" up to
\* letter case, false for every other text, and raises for a non-text.
C8_IsYesish ==
    pc = "returned" =>
        IF arg.kind = "str"
        THEN /\ ~result.raised
             /\ result.val = PyBool(\E t \in YesTexts : EqualIgnoringCase(arg.s, t))
        ELSE result.raised

\* is_yesish("YeS") returned True.
C8_Witness ==
    /\ pc = "returned"
    /\ arg = PyStr(<<"Y", "e", "S">>)
    /\ ~result.raised
    /\ result.val = PyBool(TRUE)

\* C10 as stated: every attribute assignment stores the value at
\* parsed[name] and leaves environ, missing, malformed, prefix and spec as
\* construction left them.
C10_AssignmentChangesOnlyParsed ==
    [][nsets' # nsets =>
        /\ result'.name \in DOMAIN parsed'
        /\ parsed'[result'.name] = result'.val
        /\ rebound' = rebound
        /\ UNCHANGED <<environ, missing, malformed, prefix, spec>>]_vars

\* C10 amended: an assignment to a name that is no attribute of the class
\* stores the value at parsed[name], keeps the other entries of parsed and
\* changes nothing else (as long as parsed is still a dictionary; once it is
\* not, the assignment raises and changes nothing); an assignment to a class
\* attribute's name rebinds that one attribute of the instance and leaves
\* the entries of parsed alone.
C10_AssignmentByName ==
    [][nsets' # nsets =>
        LET name == result'.name
            value == result'.val
        IN  /\ UNCHANGED <<environ, missing, malformed, prefix, spec>>
            /\ IF name \in ClassDictNames
               THEN /\ ~result'.raised
                    /\ parsed' = parsed
                    /\ DOMAIN rebound' = DOMAIN rebound \cup {name}
                    /\ rebound'[name] = value
                    /\ \A k \in DOMAIN rebound \ {name} : rebound'[k] = rebound[k]
               ELSE IF n_parsed \in DOMAIN rebound
               THEN result'.raised /\ parsed' = parsed /\ rebound' = rebound
               ELSE /\ ~result'.raised
                    /\ DOMAIN parsed' = DOMAIN parsed \cup {name}
                    /\ parsed'[name] = value
                    /\ \A k \in DOMAIN parsed \ {name} : parsed'[k] = parsed[k]
                    /\ rebound' = rebound]_vars

\* Two assignments were made, the last one stored in parsed next to a parsed
\* variable, and no attribute of the instance was rebound.
C10_Witness ==
    /\ pc = "ready"
    /\ nsets = MaxSetattr
    /\ result.op = "setattr"
    /\ result.name = n_blah
    /\ n_blah \in DOMAIN parsed
    /\ parsed[n_blah] = result.val
    /\ n_a \in DOMAIN parsed
    /\ rebound = EmptyDict
    /\ malformed # <<>>

====
